---------------------------- MODULE Spec2Model ----------------------------
(***************************************************************************)
(* A model of the alm beam-propagation code: the component class and its   *)
(* componentList (src/component.py), the beamq class (src/beamq.py) and    *)
(* the beamPath class (src/beamPath.py).                                   *)
(*                                                                         *)
(* Numbers.  Transfer matrices are 2x2 integer matrices (numpy computes    *)
(* them in int64 or in floats that hold small integers exactly; the bounds *)
(* below stay far from 2^63 and 2^53).  A complex q is an exact rational   *)
(* complex number [re, im, den] standing for (re + i*im)/den; all lengths  *)
(* (q, wavelength) are in one common unit.                                 *)
(*                                                                         *)
(* Objects.  Python objects are mutable and passed by reference: beamq     *)
(* objects live in the heap `beams` and are named by their identity.       *)
(*                                                                         *)
(* Six specifications share the variables: SpecCombine and SpecMembers     *)
(* (componentList and component), SpecBeam and SpecSet (beamq), SpecPath   *)
(* and SpecDup (beamPath).  Each leaves the state of the other classes at  *)
(* its idle value.                                                         *)
(***************************************************************************)
EXTENDS Integers, Sequences, FiniteSets, TLC

VARIABLES
    path,       \* the beamPath object: its instance attributes
    dup,        \* the beamPath object path.duplicate() last returned, if any
    beams,      \* heap of beamq objects: identity -> attributes
    clist,      \* a componentList (a Python list of component objects)
    cT,         \* the component last returned by componentList.combine
    orig,       \* the objects the componentList was first built from
    spans,      \* history: for each member of clist, the range of orig it stands for
    first,      \* history: the matrix and grouping of the first combine of this list
    call,       \* history: the last call, its arguments and the state before it
    ret,        \* the outcome of the last call: a value, a reference or an exception
    nops,       \* number of calls made (bounds the exploration)
    plotting    \* the plotBeamWidth call that is inside plt.show(), if any

vars == <<path, dup, beams, clist, cT, orig, spans, first, call, ret, nops, plotting>>

(***************************************************************************)
(* Bounds of the exploration.                                              *)
(***************************************************************************)
MaxLen == 3
MaxOps == 2
MaxComps == 2

(***************************************************************************)
(* Outcomes of a call.                                                     *)
(***************************************************************************)
NoCall == [op |-> "none"]
NoRet == [kind |-> "none"]
Raise(e) == [kind |-> "exception", exc |-> e]
Return(v) == [kind |-> "value", val |-> v]
ReturnRef(o) == [kind |-> "ref", obj |-> o]

(***************************************************************************)
(* Rationals [num, den] in lowest terms with den > 0.                      *)
(***************************************************************************)
Abs(x) == IF x < 0 THEN -x ELSE x

RECURSIVE GCD(_, _)
GCD(a, b) == IF b = 0 THEN a ELSE GCD(b, a % b)

Rat(num, den) ==
    LET g == GCD(Abs(num), Abs(den))
        sgn == IF den < 0 THEN -1 ELSE 1
    IN [num |-> (sgn * num) \div g, den |-> (sgn * den) \div g]

(***************************************************************************)
(* Python values passed as arguments or held in attributes, with the type  *)
(* isinstance tests: an int, a float, a list, an np.matrix.                *)
(***************************************************************************)
Number(v) == [kind |-> "number", v |-> v]
Float(num, den) == [kind |-> "float", v |-> Rat(num, den)]
List(items) == [kind |-> "list", items |-> items]
Matrix(rows) == [kind |-> "matrix", rows |-> rows]

(***************************************************************************)
(* 2x2 matrices (np.matrix): <<<<A, B>>, <<C, D>>>>, `*` is the matrix     *)
(* product.                                                                *)
(***************************************************************************)
Identity == <<<<1, 0>>, <<0, 1>>>>

MatMul(X, Y) ==
    << << X[1][1] * Y[1][1] + X[1][2] * Y[2][1], X[1][1] * Y[1][2] + X[1][2] * Y[2][2] >>,
       << X[2][1] * Y[1][1] + X[2][2] * Y[2][1], X[2][1] * Y[1][2] + X[2][2] * Y[2][2] >> >>

(***************************************************************************)
(* component (src/component.py).  An object has M, z, type, parameters     *)
(* and, when a label was given or a factory made it, label.                *)
(***************************************************************************)
Unlabelled == [set |-> FALSE]
Label(l) == [set |-> TRUE, v |-> l]

\* component.__init__(M, Z, label): label is set only when one is given
component(M, Z, label) ==
    [M |-> M, z |-> Z, type |-> "other", parameters |-> <<0>>, label |-> label]

\* component.lens([f], [Z], [label]) for one focal length: Z stays the list
\* it was passed as; fl = -1./f (f is 1 or -1 here, so fl is an integer)
lens(focalLength, Z, label) ==
    LET fl == IF focalLength[1] = 1 THEN -1 ELSE 1
        o == component(<<<<1, 0>>, <<fl, 1>>>>, Z, Unlabelled)
    IN [o EXCEPT !.type = "lens",
                 !.parameters = <<0, <<"focalLength", fl>>>>,
                 !.label = IF label.set THEN Label(label.v[1]) ELSE Label("no label")]

\* component.flatMirror(Z, label)
flatMirror(Z, label) ==
    LET o == component(Identity, Z, Unlabelled)
    IN [o EXCEPT !.type = "flat mirror",
                 !.label = IF label.set THEN label ELSE Label("no label")]

\* component.propagator(DZ, Z, label)
propagator(DZ, Z, label) ==
    LET o == component(<<<<1, DZ>>, <<0, 1>>>>, Z, Unlabelled)
    IN [o EXCEPT !.type = "propagator",
                 !.parameters = <<0, <<"length", DZ>>>>,
                 !.label = IF label.set THEN label ELSE Label("no label")]

\* component.set_z(zin): raises unless zin is a list of more than one
\* element whose first element is no int; stores the list as it is.  The
\* result is the object after the call and the outcome.
set_z(self, zin) ==
    IF \/ zin.kind # "list"
       \/ ~(Len(zin.items) > 1)
       \/ zin.items[1].kind = "number"
    THEN [obj |-> self,
          ret |-> Raise("Sorry, axial position Z must be a list with one number in it")]
    ELSE [obj |-> [self EXCEPT !.z = zin.items], ret |-> ReturnRef("self")]

\* component.set_M(Min): Min must be an np.matrix of shape (2, 2)
set_M(self, Min) ==
    IF Min.kind = "matrix" /\ Len(Min.rows) = 2 /\ Len(Min.rows[1]) = 2
    THEN [obj |-> [self EXCEPT !.M = Min.rows], ret |-> ReturnRef("self")]
    ELSE [obj |-> self,
          ret |-> Raise("Sorry, transformation matrix M must be a 2x2 matrix")]

\* component.set_length(L): self.parameters.length = [L].  parameters is the
\* list [0] (no attribute can be set on it) or the record array a factory
\* made: its field 'length' is set to L when it has one, otherwise the array
\* object gets an attribute length holding the list [L].
set_length(self, L) ==
    LET p == self.parameters
        fields == {k \in 2..Len(p) : p[k][1] = "length"}
        attrs == {k \in 2..Len(p) : p[k][1] = ".length"}
    IN IF Len(p) = 1 THEN [obj |-> self, ret |-> Raise("AttributeError")]
       ELSE [obj |-> [self EXCEPT !.parameters =
                         IF fields # {}
                         THEN [k \in 1..Len(p) |-> IF k \in fields THEN <<"length", L>> ELSE p[k]]
                         ELSE IF attrs # {}
                         THEN [k \in 1..Len(p) |-> IF k \in attrs THEN <<".length", <<L>>>> ELSE p[k]]
                         ELSE Append(p, <<".length", <<L>>>>)],
             ret |-> ReturnRef("self")]

\* The arguments the exploration passes to the setters: [1.5, 2.5], [1, 2],
\* [1.5] and 2 as zin; a 2x2 matrix, a 1x2 matrix and a list of lists as Min;
\* 3 as L.
ZArgs ==
    { List(<<Float(3, 2), Float(5, 2)>>), List(<<Number(1), Number(2)>>),
      List(<<Float(3, 2)>>), Number(2) }
MArgs ==
    { Matrix(<<<<1, 5>>, <<0, 1>>>>), Matrix(<<<<1, 5>>>>), List(<<<<1, 5>>, <<0, 1>>>>) }
LArgs == {3}

\* The components the exploration builds lists from.
Pool ==
    { lens(<<1>>, <<2>>, Label(<<"lens1">>)),
      propagator(1, 1, Label("prop1")),
      flatMirror(3, Label("fm1")),
      component(<<<<2, 0>>, <<0, 1>>>>, 0, Label("other1")) }

RECURSIVE SeqsUpTo(_, _)
SeqsUpTo(S, n) ==
    IF n = 0 THEN {<<>>}
    ELSE LET shorter == SeqsUpTo(S, n - 1)
         IN shorter \cup {Append(s, x) : s \in {t \in shorter : Len(t) = n - 1}, x \in S}

(***************************************************************************)
(* componentList.combine: Mtrain starts as the identity and each member,   *)
(* in index order, left-multiplies it; the result is component(Mtrain, 0)  *)
(* with type 'composite'.                                                  *)
(***************************************************************************)
RECURSIVE combine_loop(_, _, _)
combine_loop(self, j, Mtrain) ==
    IF j > Len(self) THEN Mtrain
    ELSE combine_loop(self, j + 1, MatMul(self[j].M, Mtrain))

RECURSIVE combine_loop_right(_, _, _)
combine_loop_right(self, j, Mtrain) ==
    IF j > Len(self) THEN Mtrain
    ELSE combine_loop_right(self, j + 1, MatMul(Mtrain, self[j].M))

\* mutant: the member right-multiplies the accumulated product
combine_rightmul(self) ==
    [component(combine_loop_right(self, 1, Identity), 0, Unlabelled) EXCEPT !.type = "composite"]

\* mutant: the loop starts at the second member
combine_skipfirst(self) ==
    [component(combine_loop(self, 2, Identity), 0, Unlabelled) EXCEPT !.type = "composite"]

combine(self) ==
    [component(combine_loop(self, 1, Identity), 0, Unlabelled) EXCEPT !.type = "composite"]

(***************************************************************************)
(* Idle values of the state of the classes a specification does not use.   *)
(***************************************************************************)
NoComp == [type |-> "none"]
IdlePath == [constructed |-> FALSE]
IdleBeams == <<>>
NotShown == [blocked |-> FALSE]

(***************************************************************************)
(* SpecCombine: a componentList is built, combined, and regrouped by       *)
(* replacing a sub-list by its combine, as in                              *)
(* componentList([componentList([A, B]).combine(), C]).                    *)
(***************************************************************************)
InitCombine ==
    /\ clist \in SeqsUpTo(Pool, MaxLen)
    /\ orig = clist
    /\ spans = [i \in 1..Len(clist) |-> <<i, i>>]
    /\ cT = NoComp
    /\ first = NoComp
    /\ call = NoCall
    /\ ret = NoRet
    /\ nops = 0
    /\ path = IdlePath
    /\ dup = IdlePath
    /\ beams = IdleBeams
    /\ plotting = NotShown

\* History: a composite member whose M was set, or one of whose range a
\* member's M was set since, stands for no range of orig.
NoSpan == <<0, 0>>
Faithful(sp) == \A i \in 1..Len(sp) : sp[i] # NoSpan

\* cT = clist.combine()
Combine ==
    /\ cT' = combine(clist)
    /\ first' = IF first = NoComp /\ Faithful(spans)
                THEN [type |-> "first", spans |-> spans, M |-> cT'.M] ELSE first
    /\ call' = [op |-> "combine", pre |-> clist]
    /\ ret' = Return(cT')
    /\ UNCHANGED <<clist, orig, spans, nops, path, dup, beams, plotting>>

\* clist = componentList(clist[:i-1] + [componentList(clist[i-1:j]).combine()] + clist[j:])
Group(i, j) ==
    /\ 1 <= i /\ i <= j /\ j <= Len(clist)
    /\ clist' = SubSeq(clist, 1, i - 1) \o <<combine(SubSeq(clist, i, j))>>
                    \o SubSeq(clist, j + 1, Len(clist))
    /\ spans' = SubSeq(spans, 1, i - 1)
                    \o << IF Faithful(SubSeq(spans, i, j))
                          THEN <<spans[i][1], spans[j][2]>> ELSE NoSpan >>
                    \o SubSeq(spans, j + 1, Len(spans))
    /\ call' = [op |-> "group", pre |-> clist]
    /\ ret' = NoRet
    /\ UNCHANGED <<cT, orig, first, nops, path, dup, beams, plotting>>

\* clist = componentList(orig): the list is built again from the objects it
\* was first built from, as they are now
Rebuild ==
    /\ clist # orig
    /\ clist' = orig
    /\ spans' = [i \in 1..Len(orig) |-> <<i, i>>]
    /\ call' = [op |-> "rebuild", pre |-> clist]
    /\ ret' = NoRet
    /\ UNCHANGED <<cT, orig, first, nops, path, dup, beams, plotting>>

NextCombine ==
    \/ Combine
    \/ Rebuild
    \/ \E i \in 1..MaxLen + 1, j \in 1..MaxLen + 1 : Group(i, j)

SpecCombine == InitCombine /\ [][NextCombine]_vars

(***************************************************************************)
(* SpecMembers: a componentList of distinct objects is built; its members  *)
(* are changed in place with set_z, set_M and set_length, and the list is  *)
(* combined, regrouped and rebuilt.  A member the list was built from is   *)
(* the very object orig holds; a composite is an object of its own.        *)
(***************************************************************************)
InitMembers ==
    /\ InitCombine
    /\ Len(clist) <= MaxComps

\* clist[i] is one of the objects the list was built from
IsBuilt(i) == clist[i].type # "composite"

\* The state after clist[i].<setter>(...) with result r
MemberSet(i, r) ==
    /\ nops < MaxOps
    /\ i \in 1..Len(clist)
    /\ clist' = [clist EXCEPT ![i] = r.obj]
    /\ orig' = IF IsBuilt(i) THEN [orig EXCEPT ![spans[i][1]] = r.obj] ELSE orig
    /\ spans' = IF r.obj.M = clist[i].M THEN spans
                ELSE IF IsBuilt(i)
                THEN [k \in 1..Len(spans) |->
                        IF clist[k].type = "composite"
                           /\ spans[k][1] <= spans[i][1] /\ spans[i][1] <= spans[k][2]
                        THEN NoSpan ELSE spans[k]]
                ELSE [spans EXCEPT ![i] = NoSpan]
    /\ first' = IF r.obj.M # clist[i].M /\ IsBuilt(i) THEN NoComp ELSE first
    /\ ret' = r.ret
    /\ nops' = nops + 1
    /\ UNCHANGED <<cT, path, dup, beams, plotting>>

\* clist[i].set_z(zin)
MemberSetZ(i, zin) ==
    /\ MemberSet(i, set_z(clist[i], zin))
    /\ call' = [op |-> "set_z", i |-> i, zin |-> zin, pre |-> clist]

\* clist[i].set_M(Min)
MemberSetM(i, Min) ==
    /\ MemberSet(i, set_M(clist[i], Min))
    /\ call' = [op |-> "set_M", i |-> i, Min |-> Min, pre |-> clist]

\* clist[i].set_length(L)
MemberSetLength(i, L) ==
    /\ MemberSet(i, set_length(clist[i], L))
    /\ call' = [op |-> "set_length", i |-> i, L |-> L, pre |-> clist]

NextMembers ==
    \/ Combine
    \/ Rebuild
    \/ \E i \in 1..MaxComps, j \in 1..MaxComps : Group(i, j)
    \/ \E i \in 1..MaxComps, zin \in ZArgs : MemberSetZ(i, zin)
    \/ \E i \in 1..MaxComps, Min \in MArgs : MemberSetM(i, Min)
    \/ \E i \in 1..MaxComps, L \in LArgs : MemberSetLength(i, L)

SpecMembers == InitMembers /\ [][NextMembers]_vars

(***************************************************************************)
(* Exact arithmetic for beamq: rational complex numbers [re, im, den] =     *)
(* (re + i*im)/den in lowest terms with den > 0.                           *)
(***************************************************************************)
Cx(re, im, den) ==
    LET g == GCD(GCD(Abs(re), Abs(im)), Abs(den))
        sgn == IF den < 0 THEN -1 ELSE 1
    IN [re |-> (sgn * re) \div g, im |-> (sgn * im) \div g, den |-> (sgn * den) \div g]

\* q.real and q.imag
Real(q) == Rat(q.re, q.den)
Imag(q) == Rat(q.im, q.den)

\* A value pi^2 * num/den (the overlap fraction carries the factor (2*pi)^2).
PiSqTimes(num, den) == [pi2 |-> Rat(num, den)]

RatAdd(a, b) == Rat(a.num * b.den + b.num * a.den, a.den * b.den)
RatMul(a, b) == Rat(a.num * b.num, a.den * b.den)
RatDiv(a, b) == Rat(a.num * b.den, a.den * b.num)
RatAbs(a) == Rat(Abs(a.num), a.den)

\* Real values that are no rationals: sqrt(r/pi) for a rational r >= 0, and
\* the floats nan and inf.  The values are those of real arithmetic; the
\* floats the code computes are their roundings.
SqrtOverPi(r) == [sqrt_over_pi |-> r]
NaN == [nan |-> TRUE]
Inf == [inf |-> TRUE]

\* np.sqrt(x/np.pi): nan for x < 0
sqrt_over_pi(x) == IF x.num < 0 THEN NaN ELSE SqrtOverPi(x)

\* np.pi*w0**2/wavelength for w0 = sqrt(r/pi) or nan and wavelength > 0
pi_w0_squared_over(w0, wavelength) ==
    IF w0 = NaN THEN NaN
    ELSE Rat(w0.sqrt_over_pi.num, w0.sqrt_over_pi.den * wavelength)

\* w0/zR for w0 = sqrt(r/pi) or nan and a float zR >= 0 or nan: the
\* quotient of two numpy floats (division by zero gives nan or inf)
divide_by_zR(w0, zR) ==
    IF w0 = NaN \/ zR = NaN THEN NaN
    ELSE IF zR.num = 0 THEN (IF w0.sqrt_over_pi.num = 0 THEN NaN ELSE Inf)
    ELSE SqrtOverPi(RatDiv(w0.sqrt_over_pi, RatMul(zR, zR)))

\* w0*np.sqrt(1+(z/zR)**2) for the same w0 and zR and a rational z: for
\* zR = 0 the quotient z/zR is nan when z = 0 and otherwise infinite, and
\* 0 times the infinite square root is nan
times_sqrt_one_plus(w0, z, zR) ==
    IF w0 = NaN \/ zR = NaN THEN NaN
    ELSE IF zR.num = 0
    THEN (IF z.num = 0 \/ w0.sqrt_over_pi.num = 0 THEN NaN ELSE Inf)
    ELSE SqrtOverPi(RatMul(w0.sqrt_over_pi,
                           RatAdd(Rat(1, 1), RatDiv(RatMul(z, z), RatMul(zR, zR)))))

(***************************************************************************)
(* beamq (src/beamq.py).  An object has q and wavelength, the derived      *)
(* fields __init__ zeroes, and the attributes the methods create on first  *)
(* use.  The wavelength is a positive integer in every state explored.     *)
(***************************************************************************)
Unset == [set |-> FALSE]
Some(v) == [set |-> TRUE, v |-> v]

\* beamq.__init__(q, wavelength)
beamq(q, wavelength) ==
    [q |-> q, wavelength |-> wavelength,
     waistSize |-> SqrtOverPi(Rat(0, 1)), waistZ |-> Rat(0, 1),
     divergenceAngle |-> SqrtOverPi(Rat(0, 1)), radiusOfCurvature |-> Rat(0, 1),
     beamWidth |-> SqrtOverPi(Rat(0, 1)), rayleighRange |-> Rat(0, 1),
     w0 |-> Unset, Z |-> Unset, ZR |-> Unset, R |-> Unset, w |-> Unset,
     z |-> Unset, zR |-> Unset,
     zdomain |-> Unset, ploth |-> Unset, plothandle |-> Unset,
     qvalue |-> Unset, newwavelength |-> Unset,
     qvalin |-> Unset, qvalout |-> Unset,
     qin |-> Unset, M |-> Unset, qout |-> Unset, beamout |-> Unset,
     q1 |-> Unset, q2 |-> Unset, w1 |-> Unset, w2 |-> Unset]

BeamIds == {"beamA", "beamB", "beamC"}

\* The beams the exploration starts from: Im(q) > 0, wavelength > 0.
InitQ == {Cx(0, 1, 1), Cx(2, 1, 1)}
InitWavelength == {1, 2}

\* The transfer matrices the exploration applies: the identity, a propagator
\* of length 1 and a lens of focal length 1.
Matrices == {Identity, <<<<1, 1>>, <<0, 1>>>>, <<<<1, 0>>, <<-1, 1>>>>}

\* (A*q + B)/(C*q + D), the quotient of two complex numbers; the divisor is
\* zero only when C*q + D is.
MobiusDivisorIsZero(q, M) ==
    M[2][1] * q.re + M[2][2] * q.den = 0 /\ M[2][1] * q.im = 0

Mobius(q, M) ==
    LET n1 == M[1][1] * q.re + M[1][2] * q.den
        n2 == M[1][1] * q.im
        m1 == M[2][1] * q.re + M[2][2] * q.den
        m2 == M[2][1] * q.im
    IN Cx(n1 * m1 + n2 * m2, n2 * m1 - n1 * m2, m1 * m1 + m2 * m2)

\* beamq.transformValue, called on object o of heap h: the heap after the
\* call; the value returned is its qvalout.
transformValue(h, o, qvalin, M) ==
    [h EXCEPT ![o].qvalin = Some(qvalin), ![o].qvalout = Some(Mobius(qvalin, M))]

\* beamq.duplicate(qold): `self = qold; return self` rebinds the local name
\* and returns the very object it was passed.
beamq_duplicate(self, qold) == qold

\* beamq.get_waistZ(qin), called on object o: stores and returns qin.q.real
get_waistZ(h, o, qin) == [h EXCEPT ![o].waistZ = Real(h[qin].q)]

\* beamq.get_waistSize(qin), called on object o: takes the wavelength of qin
get_waistSize(h, o, qin) ==
    LET h1 == [h EXCEPT ![o].wavelength = h[qin].wavelength]
        im == Imag(h1[qin].q)
    IN [h1 EXCEPT ![o].waistSize = sqrt_over_pi(Rat(im.num * h1[o].wavelength, im.den))]

\* beamq.get_rayleighRange(qin), called on object o
get_rayleighRange(h, o, qin) ==
    LET h1 == get_waistSize(h, qin, qin)
        h2 == [h1 EXCEPT ![o].w0 = Some(h1[qin].waistSize)]
        h3 == [h2 EXCEPT ![o].wavelength = h2[qin].wavelength]
    IN [h3 EXCEPT ![o].rayleighRange = pi_w0_squared_over(h3[o].w0.v, h3[o].wavelength)]

\* beamq.get_divergenceAngle(qin), called on object o
get_divergenceAngle(h, o, qin) ==
    LET h1 == get_waistSize(h, qin, qin)
        h2 == [h1 EXCEPT ![o].w0 = Some(h1[qin].waistSize)]
        h3 == get_rayleighRange(h2, qin, qin)
        h4 == [h3 EXCEPT ![o].zR = Some(h3[qin].rayleighRange)]
    IN [h4 EXCEPT ![o].divergenceAngle = divide_by_zR(h4[o].w0.v, h4[o].zR.v)]

\* beamq.get_beamWidth(qin), called on object o
get_beamWidth(h, o, qin) ==
    LET h1 == get_waistZ(h, qin, qin)
        h2 == [h1 EXCEPT ![o].z = Some(h1[qin].waistZ)]
        h3 == get_rayleighRange(h2, qin, qin)
        h4 == [h3 EXCEPT ![o].zR = Some(h3[qin].rayleighRange)]
        h5 == get_waistSize(h4, qin, qin)
        h6 == [h5 EXCEPT ![o].w0 = Some(h5[qin].waistSize)]
    IN [h6 EXCEPT ![o].beamWidth = times_sqrt_one_plus(h6[o].w0.v, h6[o].z.v, h6[o].zR.v)]

\* beamq.get_radiusOfCurvature(qin), called on object o, up to the test
\* `if z != 0`, which reads a name z that is bound nowhere (NameError)
get_radiusOfCurvature(h, o, qin) ==
    LET h1 == get_waistZ(h, qin, qin)
        h2 == [h1 EXCEPT ![o].z = Some(h1[qin].waistZ)]
        h3 == get_rayleighRange(h2, qin, qin)
    IN [h3 EXCEPT ![o].zR = Some(h3[qin].rayleighRange)]

\* [q.get_beamWidth(q) for q in qarray], from element j on
RECURSIVE beamWidths(_, _, _)
beamWidths(h, qarray, j) ==
    IF j > Len(qarray) THEN h
    ELSE beamWidths(get_beamWidth(h, qarray[j], qarray[j]), qarray, j + 1)

\* beamq.plotBeamWidth(qarray, zdomain), called on object o, for a zdomain
\* as long as qarray, up to the call of plt.show(): the widths are computed
\* twice, for the two curves; plt.plot returns the list of lines it drew
plotBeamWidth(h, o, qarray, zdomain) ==
    LET h1 == [h EXCEPT ![o].zdomain = Some(zdomain)]
        h2 == beamWidths(h1, qarray, 1)
        h3 == [h2 EXCEPT ![o].ploth = Some([kind |-> "lines"])]
    IN beamWidths(h3, qarray, 1)

\* the statement after plt.show(): self.plothandle = self.ploth
plotBeamWidth_after_show(h, o) == [h EXCEPT ![o].plothandle = h[o].ploth]

\* beamq.transform(beamin, M), called on object self
transform(self, beamin, M) ==
    LET h1 == [beams EXCEPT ![self].qin = Some(beams[beamin].q), ![self].M = Some(M)]
    IN IF MobiusDivisorIsZero(h1[self].qin.v, M)
       THEN /\ beams' = [h1 EXCEPT ![beamin].qvalin = h1[self].qin]
            /\ ret' = Raise("ZeroDivisionError")
       ELSE LET h2 == transformValue(h1, beamin, h1[self].qin.v, h1[self].M.v)
                h3 == [h2 EXCEPT ![self].qout = h2[beamin].qvalout]
                h4 == [h3 EXCEPT ![self].beamout = Some(beamq_duplicate(beamin, beamin))]
                h5 == [h4 EXCEPT ![h4[self].beamout.v].q = h4[self].qout.v]
            IN /\ beams' = h5
               /\ ret' = ReturnRef(self)

\* the value of (2*pi/wavelength * w1 * w2 * 1/abs(q2.conjugate() - q1))**2
\* from the attributes of self: abs(...)^2 is the sum of the squares of
\* Re(q2) - Re(q1) and Im(q2) + Im(q1)
overlap_divisor(o) ==
    (o.q2.v.re * o.q1.v.den - o.q1.v.re * o.q2.v.den) * (o.q2.v.re * o.q1.v.den - o.q1.v.re * o.q2.v.den)
    + (o.q2.v.im * o.q1.v.den + o.q1.v.im * o.q2.v.den) * (o.q2.v.im * o.q1.v.den + o.q1.v.im * o.q2.v.den)

overlap_value(o) ==
    LET w1w2 == Rat(o.w1.v.num * o.w2.v.num, o.w1.v.den * o.w2.v.den)
        dd == o.q1.v.den * o.q2.v.den
    IN PiSqTimes(4 * w1w2.num * w1w2.num * dd * dd,
                 o.wavelength * o.wavelength * w1w2.den * w1w2.den * overlap_divisor(o))

\* beamq.overlap(beam1, beam2), called on object self
overlap(self, beam1, beam2) ==
    LET h1 == [beams EXCEPT ![self].q1 = Some(beams[beam1].q)]
        h2 == [h1 EXCEPT ![self].q2 = Some(h1[beam2].q)]
        h3 == get_waistZ(h2, beam1, beam1)
        h4 == [h3 EXCEPT ![self].w1 = Some(h3[beam1].waistZ)]
        h5 == get_waistZ(h4, beam2, beam2)
        h6 == [h5 EXCEPT ![self].w2 = Some(h5[beam2].waistZ)]
        h7 == [h6 EXCEPT ![self].wavelength = h6[beam1].wavelength]
    IN /\ beams' = h7
       /\ ret' = IF h7[self].wavelength # h7[beam2].wavelength
                 THEN Raise("Cannot overlap beams of different wavelength.")
                 ELSE IF overlap_divisor(h7[self]) = 0
                      THEN Raise("ZeroDivisionError")
                      ELSE Return(overlap_value(h7[self]))

(***************************************************************************)
(* SpecBeam: three beamq objects are constructed; transform,               *)
(* transformValue, overlap, the property getters and plotBeamWidth are     *)
(* called on any of them with any of them as arguments.                    *)
(***************************************************************************)
InitBeam ==
    /\ beams \in [BeamIds -> {beamq(q, w) : q \in InitQ, w \in InitWavelength}]
    /\ call = NoCall
    /\ ret = NoRet
    /\ nops = 0
    /\ path = IdlePath
    /\ dup = IdlePath
    /\ clist = <<>> /\ cT = NoComp /\ orig = <<>> /\ spans = <<>> /\ first = NoComp
    /\ plotting = NotShown

Transform(self, beamin, M) ==
    /\ nops < MaxOps
    /\ transform(self, beamin, M)
    /\ call' = [op |-> "transform", self |-> self, beamin |-> beamin, M |-> M, pre |-> beams]
    /\ nops' = nops + 1
    /\ UNCHANGED <<path, dup, clist, cT, orig, spans, first, plotting>>

\* The values passed to transformValue: 2+1j, and 1, at which the divisor
\* -q + 1 of the lens matrix is zero.
QValinArgs == {Cx(2, 1, 1), Cx(1, 0, 1)}

\* self.transformValue(qvalin, M): qvalin is stored before the quotient is
\* computed
TransformValue(self, qvalin, M) ==
    /\ nops < MaxOps
    /\ IF MobiusDivisorIsZero(qvalin, M)
       THEN /\ beams' = [beams EXCEPT ![self].qvalin = Some(qvalin)]
            /\ ret' = Raise("ZeroDivisionError")
       ELSE /\ beams' = transformValue(beams, self, qvalin, M)
            /\ ret' = Return(beams'[self].qvalout.v)
    /\ call' = [op |-> "transformValue", self |-> self, qvalin |-> qvalin, M |-> M,
                pre |-> beams]
    /\ nops' = nops + 1
    /\ UNCHANGED <<path, dup, clist, cT, orig, spans, first, plotting>>

Overlap(self, beam1, beam2) ==
    /\ nops < MaxOps
    /\ overlap(self, beam1, beam2)
    /\ call' = [op |-> "overlap", self |-> self, beam1 |-> beam1, beam2 |-> beam2, pre |-> beams]
    /\ nops' = nops + 1
    /\ UNCHANGED <<path, dup, clist, cT, orig, spans, first, plotting>>

\* self.get_<name>(qin), h being the heap after the call: the getter
\* returns the attribute of self it has just written
Get(name, self, qin, h) ==
    /\ nops < MaxOps
    /\ beams' = h
    /\ ret' = Return(h[self][name])
    /\ call' = [op |-> "get", name |-> name, self |-> self, qin |-> qin, pre |-> beams]
    /\ nops' = nops + 1
    /\ UNCHANGED <<path, dup, clist, cT, orig, spans, first, plotting>>

GetWaistSize(self, qin) == Get("waistSize", self, qin, get_waistSize(beams, self, qin))
GetRayleighRange(self, qin) == Get("rayleighRange", self, qin, get_rayleighRange(beams, self, qin))
GetDivergenceAngle(self, qin) ==
    Get("divergenceAngle", self, qin, get_divergenceAngle(beams, self, qin))
GetWaistZ(self, qin) == Get("waistZ", self, qin, get_waistZ(beams, self, qin))
GetBeamWidth(self, qin) == Get("beamWidth", self, qin, get_beamWidth(beams, self, qin))

GetRadiusOfCurvature(self, qin) ==
    /\ nops < MaxOps
    /\ beams' = get_radiusOfCurvature(beams, self, qin)
    /\ ret' = Raise("NameError")
    /\ call' = [op |-> "get_radiusOfCurvature", self |-> self, qin |-> qin, pre |-> beams]
    /\ nops' = nops + 1
    /\ UNCHANGED <<path, dup, clist, cT, orig, spans, first, plotting>>

\* The arrays of beams the exploration plots.
PlotArrays == {<<>>, <<"beamA">>, <<"beamB", "beamC">>}

\* self.plotBeamWidth(qarray, zdomain) up to plt.show() (line 277), which
\* runs the event loop of the figure window: the call has not returned, and
\* the callbacks the loop runs can call any method meanwhile.  One call at a
\* time is inside plt.show().
PlotBeamWidth(self, qarray) ==
    /\ nops < MaxOps
    /\ plotting = NotShown
    /\ beams' = plotBeamWidth(beams, self, qarray, [j \in 1..Len(qarray) |-> j])
    /\ plotting' = [blocked |-> TRUE, self |-> self]
    /\ ret' = NoRet
    /\ call' = [op |-> "plotBeamWidth", self |-> self, qarray |-> qarray, pre |-> beams]
    /\ nops' = nops + 1
    /\ UNCHANGED <<path, dup, clist, cT, orig, spans, first>>

\* plt.show() returns (the window is closed, or the backend does not block):
\* line 279 copies ploth, as it is now, to plothandle and the call returns
PlotBeamWidthReturns ==
    /\ plotting.blocked
    /\ beams' = plotBeamWidth_after_show(beams, plotting.self)
    /\ plotting' = NotShown
    /\ ret' = Return("None")
    /\ call' = [op |-> "plotBeamWidth returns", self |-> plotting.self, pre |-> beams]
    /\ UNCHANGED <<nops, path, dup, clist, cT, orig, spans, first>>

\* plt.show() is left by an exception (an interrupt, an error of the
\* backend): line 279 is not reached
PlotBeamWidthInterrupted ==
    /\ plotting.blocked
    /\ beams' = beams
    /\ plotting' = NotShown
    /\ ret' = Raise("exception in plt.show()")
    /\ call' = [op |-> "plotBeamWidth interrupted", self |-> plotting.self, pre |-> beams]
    /\ UNCHANGED <<nops, path, dup, clist, cT, orig, spans, first>>

NextBeam ==
    \/ \E self \in BeamIds, beamin \in BeamIds, M \in Matrices : Transform(self, beamin, M)
    \/ \E self \in BeamIds, beam1 \in BeamIds, beam2 \in BeamIds : Overlap(self, beam1, beam2)
    \/ \E self \in BeamIds, qin \in BeamIds : GetWaistSize(self, qin)
    \/ \E self \in BeamIds, qin \in BeamIds : GetRayleighRange(self, qin)
    \/ \E self \in BeamIds, qin \in BeamIds : GetDivergenceAngle(self, qin)
    \/ \E self \in BeamIds, qin \in BeamIds : GetWaistZ(self, qin)
    \/ \E self \in BeamIds, qin \in BeamIds : GetBeamWidth(self, qin)
    \/ \E self \in BeamIds, qin \in BeamIds : GetRadiusOfCurvature(self, qin)
    \/ \E self \in BeamIds, qarray \in PlotArrays : PlotBeamWidth(self, qarray)
    \/ PlotBeamWidthReturns
    \/ PlotBeamWidthInterrupted
    \/ \E self \in BeamIds, qvalin \in QValinArgs, M \in Matrices : TransformValue(self, qvalin, M)

SpecBeam == InitBeam /\ [][NextBeam]_vars

(***************************************************************************)
(* SpecSet: three beamq objects are constructed; each can be constructed   *)
(* anew and have its q and its wavelength set, by the setters and by the   *)
(* methods that set up an existing object.                                 *)
(***************************************************************************)
\* The values passed as q: imaginary part negative, zero and positive.
QArgs == {Cx(1, -1, 1), Cx(1, 0, 1), Cx(1, 2, 1)}
\* The values passed as wavelength: the reals -1, 0, 1 and 2 (a Python float
\* or int has .imag = 0) and the complex number 1 + 1j.
WavelengthArgs == {Cx(-1, 0, 1), Cx(0, 0, 1), Cx(1, 0, 1), Cx(2, 0, 1), Cx(1, 1, 1)}

\* beamq.set_q(qvalue), called on object self
set_q(self, qvalue) ==
    IF Imag(qvalue).num < 0
    THEN /\ ret' = Raise("imaginary part of q parameter must be positive")
         /\ beams' = beams
    ELSE /\ beams' = [beams EXCEPT ![self].qvalue = Some(qvalue), ![self].q = qvalue]
         /\ ret' = ReturnRef(self)

\* beamq.set_wavelength(newwavelength), called on object self: the value is
\* stored in newwavelength and in q; the attribute wavelength is not
\* assigned
set_wavelength(self, newwavelength) ==
    IF Imag(newwavelength).num <= 0
    THEN /\ ret' = Raise("wavelength must be positive")
         /\ beams' = beams
    ELSE /\ beams' = [beams EXCEPT ![self].newwavelength = Some(newwavelength),
                                   ![self].q = newwavelength]
         /\ ret' = ReturnRef(self)

\* beamq.beamq(qvalue, wavelength), called on object self: q is set when
\* qvalue != 0, and the wavelength only then and when wavelength != 0
beamq_beamq(self, qvalue, wavelength) ==
    /\ beams' = IF qvalue # Cx(0, 0, 1)
                THEN [beams EXCEPT ![self].q = qvalue,
                                   ![self].wavelength = IF wavelength # 0 THEN wavelength ELSE @]
                ELSE beams
    /\ ret' = ReturnRef(self)

\* Z + 1j*ZR for rationals Z and ZR
complex(Z, ZR) == Cx(Z.num * ZR.den, ZR.num * Z.den, Z.den * ZR.den)

\* beamq.beamWaistAandZ(w0, Z, wavelength), called on object self, for
\* w0 = sqrt(r/pi) and wavelength > 0: ZR = pi*w0^2/wavelength = r/wavelength
beamWaistAandZ(self, w0, Z, wavelength) ==
    LET h1 == [beams EXCEPT ![self].w0 = Some(w0), ![self].Z = Some(Z),
                            ![self].wavelength = wavelength]
        h2 == [h1 EXCEPT ![self].ZR = Some(pi_w0_squared_over(h1[self].w0.v, h1[self].wavelength))]
    IN /\ beams' = [h2 EXCEPT ![self].q = complex(h2[self].Z.v, h2[self].ZR.v)]
       /\ ret' = ReturnRef(self)

\* beamq.beamWaistAandR(w0, R, wavelength), called on object self, for the
\* same w0 and wavelength and R one of 0, 1, -1 (for which 1/R is the same
\* under integer and under true division): q = (1/R - 1j/ZR)**(-1), and both
\* quotients raise ZeroDivisionError on a zero divisor
beamWaistAandR(self, w0, R, wavelength) ==
    LET h1 == [beams EXCEPT ![self].w0 = Some(w0), ![self].R = Some(R),
                            ![self].wavelength = wavelength]
        h2 == [h1 EXCEPT ![self].ZR = Some(pi_w0_squared_over(h1[self].w0.v, h1[self].wavelength))]
        ZR == h2[self].ZR.v
        a == RatDiv(Rat(1, 1), h2[self].R.v)
        b == RatDiv(Rat(1, 1), ZR)
        A == a.num * b.den
        B == b.num * a.den
        D == a.den * b.den
    IN IF h2[self].R.v.num = 0 \/ ZR.num = 0
       THEN /\ beams' = h2
            /\ ret' = Raise("ZeroDivisionError")
       ELSE /\ beams' = [h2 EXCEPT ![self].q = Cx(D * A, D * B, A * A + B * B)]
            /\ ret' = ReturnRef(self)

\* beamq.beamWidthAandR(w, R, wavelength), called on object self, for
\* w = sqrt(s/pi): with u = R*wavelength/pi/w^2 = R*wavelength/s (a zero
\* w raises ZeroDivisionError), Z = R/(1 + u^2) and ZR = sqrt(Z*(R - Z)),
\* which is |R|*|u|/(1 + u^2)
beamWidthAandR(self, w, R, wavelength) ==
    LET h1 == [beams EXCEPT ![self].w = Some(w), ![self].R = Some(R),
                            ![self].wavelength = wavelength]
        s == h1[self].w.v.sqrt_over_pi
        u == RatDiv(RatMul(h1[self].R.v, Rat(h1[self].wavelength, 1)), s)
        d == RatAdd(Rat(1, 1), RatMul(u, u))
        h2 == [h1 EXCEPT ![self].Z = Some(RatDiv(h1[self].R.v, d))]
        h3 == [h2 EXCEPT ![self].ZR = Some(RatDiv(RatMul(RatAbs(h2[self].R.v), RatAbs(u)), d))]
    IN IF s.num = 0
       THEN /\ beams' = h1
            /\ ret' = Raise("ZeroDivisionError")
       ELSE /\ beams' = [h3 EXCEPT ![self].q = complex(h3[self].Z.v, h3[self].ZR.v)]
            /\ ret' = ReturnRef(self)

\* The arguments the exploration passes to these methods: waists and widths
\* 0 and sqrt(1/pi), positions and radii as rationals, wavelengths 2 and
\* (for beamq.beamq) the default 0.
WaistArgs == {SqrtOverPi(Rat(0, 1)), SqrtOverPi(Rat(1, 1))}
ZPosArgs == {Rat(2, 1)}
RadiusArgs == {Rat(0, 1), Rat(1, 1), Rat(-1, 1)}
QValueArgs == QArgs \cup {Cx(0, 0, 1)}
SetupWavelengths == {2}
WavelengthOrZero == SetupWavelengths \cup {0}

NotBeams == <<path, dup, clist, cT, orig, spans, first, plotting>>

\* self = beamq(q, wavelength): __init__ stores what it is given
Construct(self, q, wavelength) ==
    /\ nops < MaxOps
    /\ beams' = [beams EXCEPT ![self] = beamq(q, wavelength)]
    /\ ret' = ReturnRef(self)
    /\ call' = [op |-> "beamq", self |-> self, q |-> q, wavelength |-> wavelength, pre |-> beams]
    /\ nops' = nops + 1
    /\ UNCHANGED NotBeams

SetQ(self, qvalue) ==
    /\ nops < MaxOps
    /\ set_q(self, qvalue)
    /\ call' = [op |-> "set_q", self |-> self, qvalue |-> qvalue, pre |-> beams]
    /\ nops' = nops + 1
    /\ UNCHANGED NotBeams

SetWavelength(self, newwavelength) ==
    /\ nops < MaxOps
    /\ set_wavelength(self, newwavelength)
    /\ call' = [op |-> "set_wavelength", self |-> self, newwavelength |-> newwavelength,
                pre |-> beams]
    /\ nops' = nops + 1
    /\ UNCHANGED NotBeams

BeamqBeamq(self, qvalue, wavelength) ==
    /\ nops < MaxOps
    /\ beamq_beamq(self, qvalue, wavelength)
    /\ call' = [op |-> "beamq.beamq", self |-> self, qvalue |-> qvalue,
                wavelength |-> wavelength, pre |-> beams]
    /\ nops' = nops + 1
    /\ UNCHANGED NotBeams

BeamWaistAandZ(self, w0, Z, wavelength) ==
    /\ nops < MaxOps
    /\ beamWaistAandZ(self, w0, Z, wavelength)
    /\ call' = [op |-> "beamWaistAandZ", self |-> self, w0 |-> w0, Z |-> Z,
                wavelength |-> wavelength, pre |-> beams]
    /\ nops' = nops + 1
    /\ UNCHANGED NotBeams

BeamWaistAandR(self, w0, R, wavelength) ==
    /\ nops < MaxOps
    /\ beamWaistAandR(self, w0, R, wavelength)
    /\ call' = [op |-> "beamWaistAandR", self |-> self, w0 |-> w0, R |-> R,
                wavelength |-> wavelength, pre |-> beams]
    /\ nops' = nops + 1
    /\ UNCHANGED NotBeams

BeamWidthAandR(self, w, R, wavelength) ==
    /\ nops < MaxOps
    /\ beamWidthAandR(self, w, R, wavelength)
    /\ call' = [op |-> "beamWidthAandR", self |-> self, w |-> w, R |-> R,
                wavelength |-> wavelength, pre |-> beams]
    /\ nops' = nops + 1
    /\ UNCHANGED NotBeams

NextSet ==
    \/ \E self \in BeamIds, q \in QArgs, w \in InitWavelength : Construct(self, q, w)
    \/ \E self \in BeamIds, q \in QValueArgs, w \in WavelengthOrZero : BeamqBeamq(self, q, w)
    \/ \E self \in BeamIds, w0 \in WaistArgs, Z \in ZPosArgs, w \in SetupWavelengths :
          BeamWaistAandZ(self, w0, Z, w)
    \/ \E self \in BeamIds, w0 \in WaistArgs, R \in RadiusArgs, w \in SetupWavelengths :
          BeamWaistAandR(self, w0, R, w)
    \/ \E self \in BeamIds, w \in WaistArgs, R \in RadiusArgs, wl \in SetupWavelengths :
          BeamWidthAandR(self, w, R, wl)
    \/ \E self \in BeamIds, q \in QArgs : SetQ(self, q)
    \/ \E self \in BeamIds, w \in WavelengthArgs : SetWavelength(self, w)

SpecSet == InitBeam /\ [][NextSet]_vars

(***************************************************************************)
(* beamPath (src/beamPath.py).                                             *)
(*                                                                         *)
(* The file as it stands does not compile: `def component(self,            *)
(* componentLabel):` (line 264) is followed by comments only, so the       *)
(* statement after it (line 300) is rejected with IndentationError and     *)
(* `import beamPath` defines nothing.  The methods are modelled as the     *)
(* class statement of lines 6-262 defines them, that is, with the          *)
(* body-less def and the two module-level statements after it left out.    *)
(***************************************************************************)
\* import beamPath: compiling the file
import_beamPath == Raise("IndentationError")

\* A reference to an imported module object (beamPath.py: import beamq,
\* import component).
Module(name) == [kind |-> "module", name |-> name]

\* beamPath.__init__(seedq, seedz, targetq, targetz): the four arguments are
\* not used; the beams are bound to the module beamq, the positions to empty
\* lists and components_raw to the module component.
beamPath_init(seedq, seedz, targetq, targetz) ==
    [seedq |-> Module("beamq"), seedz |-> List(<<>>),
     targetq |-> Module("beamq"), targetz |-> List(<<>>),
     components_raw |-> Module("component")]

\* The names an attribute lookup on a beamPath object finds: the attributes
\* __init__ and set_components bind and the names lines 6-262 of the class
\* body define.  sortComponents, findComponentIndex and qPropagate are
\* defined nowhere in the class (the only sort routine is commented out),
\* and component has no body.
beamPathAttributes ==
    {"seedq", "seedz", "targetq", "targetz", "components_raw",
     "__init__", "duplicate", "branchPath", "set_components", "components",
     "addComponent", "deleteComponent", "moveComponent", "replaceCompnent"}

\* copy.deepcopy of a beamPath object: the instance attributes are copied
\* one by one.  A module object cannot be deep-copied (the copy protocol
\* raises TypeError on it; older interpreters fail later, with
\* AttributeError, when the state of the module is restored), so the copy
\* exists only once every attribute holds data.  Data is copied by value.
DeepcopyErrors == {"TypeError", "AttributeError"}
HoldsModule(self) ==
    \E a \in {"seedq", "seedz", "targetq", "targetz", "components_raw"} :
        self[a].kind = "module"
deepcopy(self) ==
    IF HoldsModule(self) THEN {Raise(e) : e \in DeepcopyErrors}
    ELSE {[kind |-> "path", val |-> self]}

\* The beams and positions the exploration assigns to a path.
SeedBeams == {[kind |-> "beamq", q |-> Cx(0, 1, 1), wavelength |-> 1]}
TargetBeams == {[kind |-> "beamq", q |-> Cx(1, 2, 1), wavelength |-> 1]}
Positions == {0, 2}

\* self.<name> for a name that is no property: found, or AttributeError
getattr_beamPath(name) ==
    IF name \in beamPathAttributes THEN [kind |-> "found"] ELSE Raise("AttributeError")

\* the property beamPath.components: `self.sortComponents` is looked up
\* first, then components_raw is returned
components(self) ==
    LET sortComponents == getattr_beamPath("sortComponents")
    IN IF sortComponents.kind = "exception" THEN sortComponents
       ELSE Return(self.components_raw)

\* The components and the arguments the exploration passes to a path.
PathPool ==
    { propagator(1, 1, Label("prop1")),
      flatMirror(3, Label("fm1")),
      component(<<<<2, 0>>, <<0, 1>>>>, 0, Label("other1")),
      flatMirror(2, Unlabelled),
      propagator(1, 0, Unlabelled) }
Labels == {"prop1", "fm1", "no label", "lens9"}
Displacements == {-1, 1, 2}
Modes == {"", "absolute"}

(***************************************************************************)
(* SpecPath: the module is imported; a beamPath of the class of lines      *)
(* 6-262 is constructed; its component list is set with set_components and *)
(* read, components are added, deleted, moved and replaced, and the        *)
(* members of the list are changed in place with the setters of component. *)
(***************************************************************************)
InitPath ==
    /\ path = IdlePath
    /\ dup = IdlePath
    /\ call = NoCall
    /\ ret = NoRet
    /\ nops = 0
    /\ beams = IdleBeams
    /\ clist = <<>> /\ cT = NoComp /\ orig = <<>> /\ spans = <<>> /\ first = NoComp
    /\ plotting = NotShown

NotPath == <<dup, beams, clist, cT, orig, spans, first, nops, plotting>>
NotPaths == <<beams, clist, cT, orig, spans, first, nops, plotting>>

\* import beamPath, the file as it stands: no class comes to exist
ImportBeamPath ==
    /\ path = IdlePath
    /\ ret' = import_beamPath
    /\ path' = path
    /\ call' = [op |-> "import"]
    /\ UNCHANGED NotPath

\* path = beamPath(seedq, seedz, targetq, targetz), the class being the one
\* lines 6-262 define
NewBeamPath(seedq, seedz, targetq, targetz) ==
    /\ path = IdlePath
    /\ path' = beamPath_init(seedq, seedz, targetq, targetz)
    /\ ret' = ReturnRef("self")
    /\ call' = [op |-> "beamPath"]
    /\ UNCHANGED NotPath

\* path.set_components(comps)
set_components(comps) ==
    /\ path # IdlePath
    /\ path' = [path EXCEPT !.components_raw = List(comps)]
    /\ ret' = ReturnRef("self")
    /\ call' = [op |-> "set_components", comps |-> comps, pre |-> path]
    /\ UNCHANGED NotPath

\* path.components
ReadComponents ==
    /\ path # IdlePath
    /\ ret' = components(path)
    /\ path' = path
    /\ call' = [op |-> "components", pre |-> path]
    /\ UNCHANGED NotPath

\* path.addComponent(newComponent):
\*     self.components = self.components.append(newComponent)
\* The right-hand side reads the property first.  Were the read to return the
\* list, append would change it in place and return None, and the assignment
\* to the property, which has no setter, would raise AttributeError.
addComponent(newComponent) ==
    LET read == components(path)
    IN /\ path # IdlePath
       /\ IF read.kind = "exception"
          THEN /\ ret' = read
               /\ path' = path
          ELSE /\ ret' = Raise("AttributeError")
               /\ path' = IF read.val.kind = "list"
                          THEN [path EXCEPT !.components_raw =
                                   List(Append(read.val.items, newComponent))]
                          ELSE path
       /\ call' = [op |-> "addComponent", newComponent |-> newComponent, pre |-> path]
       /\ UNCHANGED NotPath

\* path.deleteComponent(delLabel): the first statement looks up
\* self.findComponentIndex
deleteComponent(delLabel) ==
    LET findComponentIndex == getattr_beamPath("findComponentIndex")
    IN /\ path # IdlePath
       /\ findComponentIndex.kind = "exception"
       /\ ret' = findComponentIndex
       /\ path' = path
       /\ call' = [op |-> "deleteComponent", delLabel |-> delLabel, pre |-> path]
       /\ UNCHANGED NotPath

\* path.moveComponent(componentLabel, displacement, isabsolute): the first
\* statement looks up self.findComponentIndex
moveComponent(componentLabel, displacement, isabsolute) ==
    LET findComponentIndex == getattr_beamPath("findComponentIndex")
    IN /\ path # IdlePath
       /\ findComponentIndex.kind = "exception"
       /\ ret' = findComponentIndex
       /\ path' = path
       /\ call' = [op |-> "moveComponent", componentLabel |-> componentLabel,
                   displacement |-> displacement, isabsolute |-> isabsolute, pre |-> path]
       /\ UNCHANGED NotPath

\* path.replaceCompnent(componentLabel, newComponent): the first statement
\* looks up self.findComponentIndex, before newComponent is touched
replaceCompnent(componentLabel, newComponent) ==
    LET findComponentIndex == getattr_beamPath("findComponentIndex")
    IN /\ path # IdlePath
       /\ findComponentIndex.kind = "exception"
       /\ ret' = findComponentIndex
       /\ path' = path
       /\ call' = [op |-> "replaceCompnent", componentLabel |-> componentLabel,
                   newComponent |-> newComponent, pre |-> path]
       /\ UNCHANGED NotPath

\* path.seedq = sq; path.seedz = sz; path.targetq = tq; path.targetz = tz:
\* the attributes are assigned from outside, __init__ not using its arguments
assign_seed_target(sq, sz, tq, tz) ==
    /\ path # IdlePath
    /\ path' = [path EXCEPT !.seedq = sq, !.seedz = Number(sz),
                            !.targetq = tq, !.targetz = Number(tz)]
    /\ ret' = NoRet
    /\ call' = [op |-> "assign", pre |-> path]
    /\ UNCHANGED NotPath

\* dup = path.duplicate(): return deepcopy(self)
duplicate ==
    /\ path # IdlePath
    /\ \E r \in deepcopy(path) :
          /\ ret' = r
          /\ dup' = IF r.kind = "path" THEN r.val ELSE dup
    /\ path' = path
    /\ call' = [op |-> "duplicate", pre |-> path, predup |-> dup]
    /\ UNCHANGED NotPaths

\* dup.set_components(comps): a change made to the duplicate
dup_set_components(comps) ==
    /\ dup # IdlePath
    /\ dup' = [dup EXCEPT !.components_raw = List(comps)]
    /\ path' = path
    /\ ret' = ReturnRef("dup")
    /\ call' = [op |-> "dup.set_components", comps |-> comps, pre |-> path, predup |-> dup]
    /\ UNCHANGED NotPaths

\* path.branchPath(zlink): the first statement looks up self.qPropagate,
\* which the class does not define.  (The statements after it rebind the
\* local name self to the duplicate and set its seed; the method has no
\* return statement.)
branchPath(zlink) ==
    LET qPropagate == getattr_beamPath("qPropagate")
    IN /\ path # IdlePath
       /\ qPropagate.kind = "exception"
       /\ ret' = qPropagate
       /\ path' = path
       /\ call' = [op |-> "branchPath", zlink |-> zlink, pre |-> path, predup |-> dup]
       /\ UNCHANGED NotPath

\* The state after path.components_raw[i].<setter>(...) with result r: the
\* list holds the object itself
PathMemberSet(i, r) ==
    /\ nops < MaxOps
    /\ path # IdlePath
    /\ path.components_raw.kind = "list"
    /\ i \in 1..Len(path.components_raw.items)
    /\ path' = [path EXCEPT !.components_raw.items[i] = r.obj]
    /\ ret' = r.ret
    /\ nops' = nops + 1
    /\ UNCHANGED <<dup, beams, clist, cT, orig, spans, first, plotting>>

\* path.components_raw[i].set_z(zin)
PathMemberSetZ(i, zin) ==
    /\ PathMemberSet(i, set_z(path.components_raw.items[i], zin))
    /\ call' = [op |-> "set_z", i |-> i, zin |-> zin, pre |-> path]

\* path.components_raw[i].set_M(Min)
PathMemberSetM(i, Min) ==
    /\ PathMemberSet(i, set_M(path.components_raw.items[i], Min))
    /\ call' = [op |-> "set_M", i |-> i, Min |-> Min, pre |-> path]

\* path.components_raw[i].set_length(L)
PathMemberSetLength(i, L) ==
    /\ PathMemberSet(i, set_length(path.components_raw.items[i], L))
    /\ call' = [op |-> "set_length", i |-> i, L |-> L, pre |-> path]

NextPath ==
    \/ ImportBeamPath
    \/ NewBeamPath(0, 0, 0, 0)
    \/ \E i \in 1..MaxComps, zin \in ZArgs : PathMemberSetZ(i, zin)
    \/ \E i \in 1..MaxComps, Min \in MArgs : PathMemberSetM(i, Min)
    \/ \E i \in 1..MaxComps, L \in LArgs : PathMemberSetLength(i, L)
    \/ \E comps \in SeqsUpTo(PathPool, MaxComps) : set_components(comps)
    \/ ReadComponents
    \/ \E c \in PathPool : addComponent(c)
    \/ \E l \in Labels : deleteComponent(l)
    \/ \E l \in Labels, d \in Displacements, m \in Modes : moveComponent(l, d, m)
    \/ \E l \in Labels, c \in PathPool : replaceCompnent(l, c)

SpecPath == InitPath /\ [][NextPath]_vars

(***************************************************************************)
(* SpecDup: a beamPath is constructed, given components, seed and target,  *)
(* duplicated and branched, and the duplicate is changed.                  *)
(***************************************************************************)
NextDup ==
    \/ ImportBeamPath
    \/ NewBeamPath(0, 0, 0, 0)
    \/ \E comps \in SeqsUpTo(PathPool, 1) : set_components(comps)
    \/ \E sq \in SeedBeams, tq \in TargetBeams, sz \in Positions, tz \in Positions :
          assign_seed_target(sq, sz, tq, tz)
    \/ duplicate
    \/ \E comps \in SeqsUpTo(PathPool, 1) : dup_set_components(comps)
    \/ \E z \in Positions : branchPath(z)

SpecDup == InitPath /\ [][NextDup]_vars

(***************************************************************************)
(* Claims about componentList.combine.                                     *)
(***************************************************************************)
\* The product Mn * ... * M1 associated from the other end than the loop of
\* combine: (Mn * ... * M2) * M1.
RECURSIVE ChainProduct(_)
ChainProduct(s) ==
    IF Len(s) = 0 THEN Identity
    ELSE MatMul(ChainProduct(Tail(s)), Head(s).M)

\* C3: combine of any list [c1, ..., cn] returns a component of type
\* 'composite' at position 0 whose matrix is Mn * ... * M2 * M1 (the identity
\* for the empty list), and leaves the list and its members as they were.
C3_CombineLeftProduct ==
    call.op = "combine" =>
        /\ ret = Return(cT)
        /\ cT.type = "composite"
        /\ cT.z = 0
        /\ cT.M = ChainProduct(call.pre)
        /\ (Len(call.pre) = 0 => cT.M = Identity)
        /\ (Len(call.pre) = 2 => cT.M = MatMul(call.pre[2].M, call.pre[1].M))
        /\ clist = call.pre

\* C3 witness: a three-member list whose first two members do not commute
\* has been combined.
C3_Witness ==
    /\ call.op = "combine"
    /\ Len(clist) = 3
    /\ clist = orig
    /\ MatMul(clist[2].M, clist[1].M) # MatMul(clist[1].M, clist[2].M)
    /\ cT.M = MatMul(clist[3].M, MatMul(clist[2].M, clist[1].M))

FlatSpans == <<<<1, 1>>, <<2, 2>>, <<3, 3>>>>
LeftSpans == <<<<1, 2>>, <<3, 3>>>>
RightSpans == <<<<1, 1>>, <<2, 3>>>>

\* C4: combine is associative over sub-lists: however the members of the
\* original list were grouped into composites before combining (in
\* particular [A, B, C], [combine([A, B]), C] and [A, combine([B, C])]), the
\* matrix combine returns is the same.
C4_CombineAssociative ==
    (call.op = "combine" /\ first # NoComp /\ Faithful(spans)) => cT.M = first.M

\* C4 witness: for three members, no two adjacent ones commuting, the list
\* was combined in one grouping first and has now been combined in another,
\* the two being among [A, B, C], [combine([A, B]), C], [A, combine([B, C])].
C4_Witness ==
    /\ Len(orig) = 3
    /\ MatMul(orig[2].M, orig[1].M) # MatMul(orig[1].M, orig[2].M)
    /\ MatMul(orig[3].M, orig[2].M) # MatMul(orig[2].M, orig[3].M)
    /\ call.op = "combine"
    /\ first # NoComp
    /\ {first.spans, spans} \in {{LeftSpans, RightSpans}, {FlatSpans, LeftSpans}}

(***************************************************************************)
(* Claims about beamq.                                                     *)
(***************************************************************************)
\* qn * (C*q + D) = A*q + B over the rational complex numbers
IsMobiusImage(qn, q, M) ==
    LET m1 == M[2][1] * q.re + M[2][2] * q.den
        m2 == M[2][1] * q.im
        n1 == M[1][1] * q.re + M[1][2] * q.den
        n2 == M[1][1] * q.im
    IN /\ qn.re * m1 - qn.im * m2 = n1 * qn.den
       /\ qn.re * m2 + qn.im * m1 = n2 * qn.den

\* C5 (as claimed): the object transform returns carries
\* q' = (A*q + B)/(C*q + D) and the wavelength of the input beam, whichever
\* object the method is called on; with the identity matrix its q is the
\* input q.
C5_TransformReturnsImage ==
    call.op = "transform" =>
        /\ ret.kind = "ref"
        /\ IsMobiusImage(beams[ret.obj].q, call.pre[call.beamin].q, call.M)
        /\ beams[ret.obj].wavelength = call.pre[call.beamin].wavelength
        /\ (call.M = Identity => beams[ret.obj].q = call.pre[call.beamin].q)

\* C6 (as claimed): transform with a non-identity matrix leaves the q and
\* the wavelength of the input beam as they were, and the transformed beam is
\* an object other than the input beam.
C6_TransformNonMutating ==
    (call.op = "transform" /\ call.M # Identity) =>
        /\ beams[call.beamin].q = call.pre[call.beamin].q
        /\ beams[call.beamin].wavelength = call.pre[call.beamin].wavelength
        /\ beams[call.self].beamout.set
        /\ beams[call.self].beamout.v # call.beamin

\* C7 (as claimed): overlap of two beams of different wavelengths raises the
\* wavelength-mismatch error, whichever object the method is called on, and
\* leaves the q and wavelength of every beam involved as they were.
C7_OverlapMismatchRaises ==
    (call.op = "overlap"
        /\ call.pre[call.beam1].wavelength # call.pre[call.beam2].wavelength) =>
        /\ ret = Raise("Cannot overlap beams of different wavelength.")
        /\ \A b \in {call.self, call.beam1, call.beam2} :
              /\ beams[b].q = call.pre[b].q
              /\ beams[b].wavelength = call.pre[b].wavelength

\* pi^2 lies between 9.8696 and 9.8697: a value pi^2 * num/den compared with 1
ApproxOne(v) ==
    /\ 98696 * v.pi2.num <= 10000 * v.pi2.den
    /\ 10000 * v.pi2.den <= 98697 * v.pi2.num
InUnitInterval(v) ==
    /\ v.pi2.num >= 0
    /\ 98697 * v.pi2.num <= 10000 * v.pi2.den

\* C8 (as claimed): for valid beams of equal wavelength the overlap is a
\* fraction in [0, 1], and the overlap of a beam with itself is 1.
C8_OverlapSelfIsOne ==
    (call.op = "overlap"
        /\ call.pre[call.beam1].wavelength = call.pre[call.beam2].wavelength) =>
        /\ ret.kind = "value"
        /\ InUnitInterval(ret.val)
        /\ (call.pre[call.beam1].q = call.pre[call.beam2].q => ApproxOne(ret.val))

(***************************************************************************)
(* Claims about beamPath.                                                  *)
(***************************************************************************)
IsList(p) == p.components_raw.kind = "list"
Items(p) == p.components_raw.items
WithLabel(p, l) == {i \in 1..Len(Items(p)) : Items(p)[i].label = Label(l)}
SortedByZ(s) == \A i \in 1..Len(s), j \in 1..Len(s) : i < j => s[i].z <= s[j].z

\* C1 (as claimed): every read of path.components returns the components in
\* non-decreasing order of their z.
C1_ComponentsReadSorted ==
    call.op = "components" =>
        /\ ret.kind = "value"
        /\ ret.val.kind = "list"
        /\ SortedByZ(ret.val.items)

\* C2 (as claimed): addComponent of a component whose label is already in
\* the list fails with the duplicate-label error and leaves the list as it
\* was, and an add to a list of unique labels leaves the labels unique.
C2_AddRejectsDuplicateLabel ==
    (call.op = "addComponent" /\ IsList(call.pre)) =>
        /\ (WithLabel(call.pre, call.newComponent.label.v) # {} =>
               /\ ret = Raise("DuplicateLabelError")
               /\ path = call.pre)
        /\ ((\A l \in Labels : Cardinality(WithLabel(call.pre, l)) <= 1) =>
               (\A l \in Labels : Cardinality(WithLabel(path, l)) <= 1))

\* C9 (as claimed): moveComponent(label, d) sets the z of the component with
\* that label to its z plus d, moveComponent(label, d, 'absolute') sets it
\* to d; the other components, and the M and label of the moved one, are as
\* before.
C9_MoveSetsZ ==
    (call.op = "moveComponent" /\ IsList(call.pre)
        /\ Cardinality(WithLabel(call.pre, call.componentLabel)) = 1) =>
        /\ ret.kind # "exception"
        /\ IsList(path)
        /\ LET old == Items(call.pre)
               new == Items(path)
               i == CHOOSE k \in WithLabel(call.pre, call.componentLabel) : TRUE
               moved == [old[i] EXCEPT !.z = IF call.isabsolute = "absolute"
                                             THEN call.displacement
                                             ELSE old[i].z + call.displacement]
           IN /\ Len(new) = Len(old)
              /\ \E k \in 1..Len(new) : new[k] = moved
              /\ \A k \in 1..Len(old) : k # i => \E m \in 1..Len(new) : new[m] = old[k]

\* C10 (as claimed): replaceComponent(L, newComponent) on a path holding a
\* component labelled L at z0 keeps the number of components, leaves exactly
\* one component labelled L, which has z0 and the M, type and parameters of
\* newComponent, and leaves every other component as before.
C10_ReplaceKeepsSlot ==
    (call.op = "replaceCompnent" /\ IsList(call.pre)
        /\ Cardinality(WithLabel(call.pre, call.componentLabel)) = 1) =>
        /\ ret.kind # "exception"
        /\ IsList(path)
        /\ LET old == Items(call.pre)
               new == Items(path)
               i == CHOOSE k \in WithLabel(call.pre, call.componentLabel) : TRUE
               put == [call.newComponent EXCEPT !.z = old[i].z, !.label = old[i].label]
           IN /\ Len(new) = Len(old)
              /\ Cardinality(WithLabel(path, call.componentLabel)) = 1
              /\ \E k \in 1..Len(new) : new[k] = put
              /\ \A k \in 1..Len(old) : k # i => \E m \in 1..Len(new) : new[m] = old[k]

\* C11 (as claimed): deleteComponent(label) on a path holding a component
\* with that label removes that component and no other, wherever it stands
\* in the list; with no such component it fails with the not-found error and
\* leaves the list as it was.
C11_DeleteRemovesOne ==
    (call.op = "deleteComponent" /\ IsList(call.pre)) =>
        IF WithLabel(call.pre, call.delLabel) = {}
        THEN /\ ret = Raise("NotFoundError")
             /\ path = call.pre
        ELSE /\ ret.kind # "exception"
             /\ IsList(path)
             /\ Len(Items(path)) = Len(Items(call.pre)) - 1
             /\ \E i \in WithLabel(call.pre, call.delLabel) :
                   Items(path) = SubSeq(Items(call.pre), 1, i - 1)
                                   \o SubSeq(Items(call.pre), i + 1, Len(Items(call.pre)))

\* C12 (as claimed): duplicate() returns a path with the seed beam, seed
\* position, target beam, target position and components of the original,
\* the original is as before the call, and a later change to the duplicate
\* leaves the original as it was.
C12_DuplicateIndependent ==
    /\ call.op = "duplicate" =>
          /\ ret.kind = "path"
          /\ dup = call.pre
          /\ path = call.pre
    /\ call.op = "dup.set_components" => path = call.pre

\* C13 (as claimed): branchPath(z) on a path that holds components, a seed
\* and a target returns a new path whose seed position is z (its seed beam
\* being the beam propagated to z), whose target beam, target position and
\* components are the original's, and leaves the original as it was.
C13_BranchPathRebasesSeed ==
    (call.op = "branchPath" /\ ~HoldsModule(call.pre)) =>
        /\ ret.kind = "path"
        /\ ret.val.seedz = Number(call.zlink)
        /\ ret.val.seedq.kind = "beamq"
        /\ ret.val.targetq = call.pre.targetq
        /\ ret.val.targetz = call.pre.targetz
        /\ ret.val.components_raw = call.pre.components_raw
        /\ path = call.pre

\* C14 (as claimed): no beam ever holds a q with Im(q) <= 0: constructing a
\* beamq with, or calling set_q with, such a q (Im(q) = 0 included) fails and
\* leaves the beams as they were, and set_q with Im(q) > 0 sets q to the
\* value given.
C14_QImagPositive ==
    /\ \A b \in BeamIds : beams[b].q.im > 0
    /\ call.op = "beamq" /\ call.q.im <= 0 =>
          /\ ret.kind = "exception"
          /\ beams = call.pre
    /\ call.op = "set_q" =>
          IF call.qvalue.im <= 0
          THEN /\ ret.kind = "exception"
               /\ beams[call.self].q = call.pre[call.self].q
          ELSE /\ ret = ReturnRef(call.self)
               /\ beams[call.self].q = call.qvalue

\* C15 (as claimed): set_wavelength(w) for a real w fails exactly when
\* w <= 0, leaving the beam as it was; for w > 0 it succeeds, the wavelength
\* of the beam is w afterwards and its q is as before.
C15_SetWavelengthPositive ==
    (call.op = "set_wavelength" /\ call.newwavelength.im = 0) =>
        IF call.newwavelength.re <= 0
        THEN /\ ret.kind = "exception"
             /\ beams = call.pre
        ELSE /\ ret = ReturnRef(call.self)
             /\ beams[call.self].wavelength * call.newwavelength.den = call.newwavelength.re
             /\ beams[call.self].q = call.pre[call.self].q

=============================================================================
